---- MODULE Spec2Model ----
(***************************************************************************)
(* Model of eventtools/models/occurrences.py (OccurrenceBase).             *)
(*                                                                         *)
(* Values.  A date is a 1-tuple <<day>>, a time is a 3-tuple               *)
(* <<hour, minute, second>>, a datetime is the 4-tuple                     *)
(* <<day, hour, minute, second>> and Python's None is the empty tuple.     *)
(* A call's outcome is a record [raised, value]: raised = "" when the call *)
(* returns value, and the exception's name when it raises.                 *)
(***************************************************************************)
EXTENDS Integers, Sequences, FiniteSets, TLC

VARIABLES occs, alive, db, saved, lastOp, lastObj, lastArg, supplied, raised, saves, nsets

vars == <<occs, alive, db, saved, lastOp, lastObj, lastArg, supplied, raised, saves, nsets>>

(* ------------------------------ bounds -------------------------------- *)

MaxDay == 2

MaxTime == 2

MaxSets == 1

(* ------------------------------ values -------------------------------- *)

None == <<>>

Dates == {<<d>> : d \in 1..MaxDay}

Times == {<<7 + i, 30, 0>> : i \in 1..MaxTime}

OptDates == Dates \cup {None}

OptTimes == Times \cup {None}

Objs == {"a", "b"}

Generators == {"g1", "g2", "g3"}

Variations == {"v1"}

NoVariation == "None"

Ok(v) == [raised |-> "", value |-> v]

Raise(e, v) == [raised |-> e, value |-> v]

(* self.generator.event: g1 and g2 generate the same event, g3 another.   *)
EventOf(g) == IF g = "g3" THEN "e2" ELSE "e1"

EventTitle(e) == IF e = "e1" THEN "Concert" ELSE "Lecture"

VariationTitle(v) == "Concert (matinee)"

VariationReason(v) == "Venue changed"

(* ------------------------------ fields -------------------------------- *)

UvKeys == {"unvaried_end_date", "unvaried_end_time"}

VKeys == {"varied_start_date", "varied_start_time", "varied_end_date", "varied_end_time"}

Blank ==
    [generator |-> "g1", has_slot |-> FALSE,
     unvaried_start_date |-> None, unvaried_start_time |-> None,
     unvaried_end_date |-> None, unvaried_end_time |-> None,
     varied_start_date |-> None, varied_start_time |-> None,
     varied_end_date |-> None, varied_end_time |-> None,
     cancelled |-> FALSE, hide_from_lists |-> FALSE,
     _varied_event |-> NoVariation]

(* The keyword arguments of a construction: keys is the set of keys the    *)
(* caller passed (kwargs.has_key), the other fields are their values;      *)
(* hide_from_lists is the field's default (False) when not passed.         *)
Kwargs(K, usd, ust, ued, uet, vsd, vst, ved, vet, hide) ==
    [keys |-> {"unvaried_start_date", "unvaried_start_time"} \cup K,
     hide_from_lists |-> hide,
     unvaried_start_date |-> usd, unvaried_start_time |-> ust,
     unvaried_end_date |-> ued, unvaried_end_time |-> uet,
     varied_start_date |-> vsd, varied_start_time |-> vst,
     varied_end_date |-> ved, varied_end_time |-> vet]

(* The values a caller may give key k: anything of its type when the key   *)
(* is passed, and nothing to choose when it is not.                        *)
DomOf(k, K, S) == IF k \in K THEN S \cup {None} ELSE {None}

(* __init__'s loop body for one (uv_key, v_key) pair.                      *)
BackFill(kw, uv_key, v_key) ==
    IF v_key \in kw.keys THEN kw[v_key]
    ELSE IF uv_key \in kw.keys THEN kw[uv_key]
    ELSE None

(* OccurrenceBase.__init__: the object the constructor yields.             *)
NewOccurrence(g, slot, kw) ==
    [generator |-> g, has_slot |-> slot,
     unvaried_start_date |-> kw.unvaried_start_date,
     unvaried_start_time |-> kw.unvaried_start_time,
     unvaried_end_date |-> IF "unvaried_end_date" \in kw.keys THEN kw.unvaried_end_date ELSE None,
     unvaried_end_time |-> IF "unvaried_end_time" \in kw.keys THEN kw.unvaried_end_time ELSE None,
     varied_start_date |-> BackFill(kw, "unvaried_start_date", "varied_start_date"),
     varied_start_time |-> BackFill(kw, "unvaried_start_time", "varied_start_time"),
     varied_end_date |-> BackFill(kw, "unvaried_end_date", "varied_end_date"),
     varied_end_time |-> BackFill(kw, "unvaried_end_time", "varied_end_time"),
     cancelled |-> FALSE, hide_from_lists |-> kw.hide_from_lists,
     _varied_event |-> NoVariation]

(* ------------------------- derived accessors -------------------------- *)

(* datetime.datetime.combine(date, time): TypeError on a None argument.    *)
combine(d, t) ==
    IF d = None \/ t = None THEN Raise("TypeError", None)
    ELSE Ok(<<d[1], t[1], t[2], t[3]>>)

(* Python's `x or y` on dates: a date is always true, None is false.       *)
DateOr(x, y) == IF x # None THEN x ELSE y

_get_varied_start(o) == combine(o.varied_start_date, o.varied_start_time)

_get_varied_end(o) == combine(DateOr(o.varied_end_date, o.varied_start_date), o.varied_end_time)

_get_unvaried_start(o) == combine(o.unvaried_start_date, o.unvaried_start_time)

_get_unvaried_end(o) == combine(DateOr(o.unvaried_end_date, o.unvaried_start_date), o.unvaried_end_time)

_get_varied_event(o) == IF o.has_slot THEN o._varied_event ELSE NoVariation

_get_unvaried_event(o) == EventOf(o.generator)

(* a != b or c != d, left to right, stopping at the first true operand.    *)
_is_moved(o) ==
    LET us == _get_unvaried_start(o)
        vs == _get_varied_start(o)
        ue == _get_unvaried_end(o)
        ve == _get_varied_end(o)
    IN  IF us.raised # "" THEN Raise(us.raised, FALSE)
        ELSE IF vs.raised # "" THEN Raise(vs.raised, FALSE)
        ELSE IF us.value # vs.value THEN Ok(TRUE)
        ELSE IF ue.raised # "" THEN Raise(ue.raised, FALSE)
        ELSE IF ve.raised # "" THEN Raise(ve.raised, FALSE)
        ELSE Ok(ue.value # ve.value)

_is_varied(o) ==
    LET m == _is_moved(o)
    IN  IF m.raised # "" THEN m
        ELSE IF m.value THEN Ok(TRUE)
        ELSE Ok(o.cancelled)

(* ----------------------- ordering and equality ------------------------ *)

(* A datetime as a number of seconds, for the order of datetimes.          *)
DtKey(dt) == ((dt[1] * 24 + dt[2]) * 60 + dt[3]) * 60 + dt[4]

(* Python 2's cmp(x, y) on two datetimes.                                  *)
cmp(x, y) == IF DtKey(x) < DtKey(y) THEN -1 ELSE IF DtKey(x) > DtKey(y) THEN 1 ELSE 0

(* OccurrenceBase.__cmp__: start is varied_start, end is varied_end.       *)
__cmp__(self, other) ==
    LET s1 == _get_varied_start(self)
        s2 == _get_varied_start(other)
        e1 == _get_varied_end(self)
        e2 == _get_varied_end(other)
    IN  IF s1.raised # "" THEN Raise(s1.raised, 0)
        ELSE IF s2.raised # "" THEN Raise(s2.raised, 0)
        ELSE IF cmp(s1.value, s2.value) # 0 THEN Ok(cmp(s1.value, s2.value))
        ELSE IF e1.raised # "" THEN Raise(e1.raised, 0)
        ELSE IF e2.raised # "" THEN Raise(e2.raised, 0)
        ELSE Ok(cmp(e1.value, e2.value))

(* OccurrenceBase.__eq__: a chain of `and`, evaluated left to right.       *)
__eq__(self, other) ==
    LET s1 == _get_unvaried_start(self)
        s2 == _get_unvaried_start(other)
        e1 == _get_unvaried_end(self)
        e2 == _get_unvaried_end(other)
    IN  IF EventOf(self.generator) # EventOf(other.generator) THEN Ok(FALSE)
        ELSE IF s1.raised # "" THEN Raise(s1.raised, FALSE)
        ELSE IF s2.raised # "" THEN Raise(s2.raised, FALSE)
        ELSE IF s1.value # s2.value THEN Ok(FALSE)
        ELSE IF e1.raised # "" THEN Raise(e1.raised, FALSE)
        ELSE IF e2.raised # "" THEN Raise(e2.raised, FALSE)
        ELSE Ok(e1.value = e2.value)

(* ------------------------------ reason -------------------------------- *)

Digit == <<"0", "1", "2", "3", "4", "5", "6", "7", "8", "9">>

TwoDigits(n) == Digit[(n \div 10) + 1] \o Digit[(n % 10) + 1]

(* time.strftime("%H:%M")                                                  *)
strftime_HM(t) == TwoDigits(t[1]) \o ":" \o TwoDigits(t[2])

TimeKey(t) == (t[1] * 60 + t[2]) * 60 + t[3]

(* x < y on two fields that hold a time or None: None < None is False,    *)
(* and a time against None raises TypeError.                               *)
TimeLt(x, y) ==
    IF x = None /\ y = None THEN Ok(FALSE)
    ELSE IF x = None \/ y = None THEN Raise("TypeError", FALSE)
    ELSE Ok(TimeKey(x) < TimeKey(y))

RECURSIVE Join(_)
(* ", ".join(messages)                                                     *)
Join(messages) ==
    IF messages = <<>> THEN ""
    ELSE IF Len(messages) = 1 THEN messages[1]
    ELSE messages[1] \o ", " \o Join(Tail(messages))

(* The if/elif that appends the clause about one of the two times.         *)
TimeClause(varied, unvaried, what) ==
    LET lt == TimeLt(varied, unvaried)
        gt == TimeLt(unvaried, varied)
    IN  IF lt.raised # "" THEN Raise(lt.raised, <<>>)
        ELSE IF lt.value THEN Ok(<<what \o " earlier at " \o strftime_HM(varied)>>)
        ELSE IF gt.raised # "" THEN Raise(gt.raised, <<>>)
        ELSE IF gt.value THEN Ok(<<what \o " later at " \o strftime_HM(varied)>>)
        ELSE Ok(<<>>)

(* OccurrenceBase.reason                                                   *)
reason(o) ==
    LET date == IF o.varied_start_date # o.unvaried_start_date THEN <<"new date">> ELSE <<>>
        st == TimeClause(o.varied_start_time, o.unvaried_start_time, "starts")
        en == TimeClause(o.varied_end_time, o.unvaried_end_time, "ends")
    IN  IF _get_varied_event(o) # NoVariation THEN Ok(VariationReason(_get_varied_event(o)))
        ELSE IF o.cancelled THEN Ok("Cancelled")
        ELSE IF st.raised # "" THEN Raise(st.raised, "")
        ELSE IF en.raised # "" THEN Raise(en.raised, "")
        ELSE Ok(Join(date \o st.value \o en.value))

(* ---------------------------- as_icalendar ---------------------------- *)

(* MergedObject(unvaried_event, varied_event).title: the variation's       *)
(* title when one is attached, the event's otherwise.                      *)
MergedTitle(o) ==
    IF _get_varied_event(o) # NoVariation THEN VariationTitle(_get_varied_event(o))
    ELSE EventTitle(_get_unvaried_event(o))

(* OccurrenceBase.as_icalendar: the summary, dtstart and dtend it sets.    *)
as_icalendar(o) ==
    LET dtstart == combine(o.varied_start_date, o.varied_start_time)
        dtend == combine(o.varied_end_date, o.varied_end_time)
    IN  IF dtstart.raised # "" THEN [raised |-> dtstart.raised, summary |-> "", dtstart |-> None, dtend |-> None]
        ELSE IF dtend.raised # "" THEN [raised |-> dtend.raised, summary |-> "", dtstart |-> None, dtend |-> None]
        ELSE [raised |-> "", summary |-> MergedTitle(o), dtstart |-> dtstart.value, dtend |-> dtend.value]

(* ---------------------------- generated_id ---------------------------- *)

(* The start and end of an occurrence as a listing sees them: the end date *)
(* and the end time, when absent, are those of the start.                  *)
ListedStart(o) == <<o.varied_start_date[1]>> \o o.varied_start_time

ListedEnd(o) ==
    <<DateOr(o.varied_end_date, o.varied_start_date)[1]>>
        \o (IF o.varied_end_time # None THEN o.varied_end_time ELSE o.varied_start_time)

HasStart(o) == o.varied_start_date # None /\ o.varied_start_time # None

(* Whether an occurrence overlaps the half-open range.                     *)
Overlaps(o, range_start, range_end) ==
    /\ HasStart(o)
    /\ DtKey(ListedStart(o)) < DtKey(range_end)
    /\ \/ DtKey(ListedStart(o)) >= DtKey(range_start)
       \/ DtKey(ListedEnd(o)) > DtKey(range_start)

(* The order of a listing: by start, then by end, then by object.          *)
ListedBefore(x, y) ==
    LET sx == DtKey(ListedStart(occs[x]))
        sy == DtKey(ListedStart(occs[y]))
        ex == DtKey(ListedEnd(occs[x]))
        ey == DtKey(ListedEnd(occs[y]))
    IN  \/ sx < sy
        \/ sx = sy /\ ex < ey
        \/ sx = sy /\ ex = ey /\ x = "a"

RECURSIVE InOrder(_)
InOrder(S) ==
    IF S = {} THEN <<>>
    ELSE LET m == CHOOSE x \in S : \A y \in S \ {x} : ListedBefore(x, y)
         IN  <<m>> \o InOrder(S \ {m})

(* event.get_occurrences(range_start, range_end): the event's occurrences  *)
(* that overlap the range, in start order.                                 *)
get_occurrences(event, range_start, range_end) ==
    InOrder({x \in alive : /\ EventOf(occs[x].generator) = event
                           /\ Overlaps(occs[x], range_start, range_end)})

(* datetime.replace(hour=0, minute=0)                                      *)
replace_hm(dt) == <<dt[1], 0, 0, dt[4]>>

(* datetime + datetime.timedelta(1)                                        *)
plus_one_day(dt) == <<dt[1] + 1, dt[2], dt[3], dt[4]>>

RECURSIVE index(_, _, _)
(* list.index(self): the first position whose element == self; the        *)
(* comparison is __eq__ and may raise; ValueError when none is equal.      *)
index(list, self, i) ==
    IF i > Len(list) THEN Raise("ValueError", -1)
    ELSE LET r == __eq__(occs[list[i]], self)
         IN  IF r.raised # "" THEN Raise(r.raised, -1)
             ELSE IF r.value THEN Ok(i - 1)
             ELSE index(list, self, i + 1)

(* OccurrenceBase.generated_id of object x.                                *)
generated_id(x) ==
    LET start == _get_varied_start(occs[x])
    IN  IF start.raised # "" THEN Raise(start.raised, -1)
        ELSE LET daystart == replace_hm(start.value)
                 occurrence_list == get_occurrences(EventOf(occs[x].generator),
                                                    daystart, plus_one_day(daystart))
             IN  index(occurrence_list, occs[x], 1)

(* --------------------------- persistence ------------------------------ *)

(* Model.save(): the row of the object becomes a copy of its fields.       *)
Save(o) ==
    /\ db' = [db EXCEPT ![o] = occs'[o]]
    /\ saved' = saved \cup {o}

(* ------------------------------ actions ------------------------------- *)

Init ==
    /\ occs = [o \in Objs |-> Blank]
    /\ alive = {}
    /\ db = [o \in Objs |-> Blank]
    /\ saved = {}
    /\ lastOp = "none"
    /\ lastObj = "a"
    /\ lastArg = NoVariation
    /\ supplied = {}
    /\ raised = ""
    /\ saves = 0
    /\ nsets = 0

Construct(o, g, slot, kw) ==
    /\ o \notin alive
    /\ occs' = [occs EXCEPT ![o] = NewOccurrence(g, slot, kw)]
    /\ alive' = alive \cup {o}
    /\ lastOp' = "__init__"
    /\ lastObj' = o
    /\ lastArg' = NoVariation
    /\ supplied' = kw.keys \cap VKeys
    /\ raised' = ""
    /\ saves' = 0
    /\ UNCHANGED <<db, saved, nsets>>

(* cancel() that forgets self.save().                                      *)
cancel_unsaved(o) ==
    /\ o \in alive
    /\ occs' = [occs EXCEPT ![o].cancelled = TRUE]
    /\ lastOp' = "cancel"
    /\ lastObj' = o
    /\ lastArg' = NoVariation
    /\ supplied' = {}
    /\ raised' = ""
    /\ saves' = 0
    /\ UNCHANGED <<alive, db, saved, nsets>>

cancel(o) ==
    /\ o \in alive
    /\ occs' = [occs EXCEPT ![o].cancelled = TRUE]
    /\ Save(o)
    /\ lastOp' = "cancel"
    /\ lastObj' = o
    /\ lastArg' = NoVariation
    /\ supplied' = {}
    /\ raised' = ""
    /\ saves' = 1
    /\ UNCHANGED <<alive, nsets>>

uncancel(o) ==
    /\ o \in alive
    /\ occs' = [occs EXCEPT ![o].cancelled = FALSE]
    /\ Save(o)
    /\ lastOp' = "uncancel"
    /\ lastObj' = o
    /\ lastArg' = NoVariation
    /\ supplied' = {}
    /\ raised' = ""
    /\ saves' = 1
    /\ UNCHANGED <<alive, nsets>>

(* A setter that drops the assignment instead of raising.                  *)
_set_varied_event_silent(o, v) ==
    /\ o \in alive
    /\ IF occs[o].has_slot
         THEN occs' = [occs EXCEPT ![o]._varied_event = v]
         ELSE occs' = occs
    /\ raised' = ""
    /\ lastOp' = "_set_varied_event"
    /\ lastObj' = o
    /\ lastArg' = v
    /\ supplied' = {}
    /\ saves' = 0
    /\ UNCHANGED <<alive, db, saved, nsets>>

_set_varied_event(o, v) ==
    /\ o \in alive
    /\ IF occs[o].has_slot
         THEN /\ occs' = [occs EXCEPT ![o]._varied_event = v]
              /\ raised' = ""
         ELSE /\ occs' = occs
              /\ raised' = "AttributeError"
    /\ lastOp' = "_set_varied_event"
    /\ lastObj' = o
    /\ lastArg' = v
    /\ supplied' = {}
    /\ saves' = 0
    /\ UNCHANGED <<alive, db, saved, nsets>>

(* A plain attribute assignment to one of the nullable varied fields; an   *)
(* assignment of the value the field already holds is left out.            *)
SetField(o, k, x) ==
    /\ o \in alive
    /\ nsets < MaxSets
    /\ occs[o][k] # x
    /\ occs' = [occs EXCEPT ![o][k] = x]
    /\ nsets' = nsets + 1
    /\ lastOp' = "setattr"
    /\ lastObj' = o
    /\ lastArg' = NoVariation
    /\ supplied' = {}
    /\ raised' = ""
    /\ saves' = 0
    /\ UNCHANGED <<alive, db, saved>>

FieldValues(k) == IF k \in {"varied_start_date", "varied_end_date"} THEN OptDates ELSE OptTimes

Next ==
    \/ /\ "a" \notin alive
       /\ \E slot \in BOOLEAN, hide \in BOOLEAN, K \in SUBSET (UvKeys \cup VKeys) :
          \E usd \in Dates, ust \in Times,
             ued \in DomOf("unvaried_end_date", K, Dates),
             uet \in DomOf("unvaried_end_time", K, Times),
             vsd \in DomOf("varied_start_date", K, Dates),
             vst \in DomOf("varied_start_time", K, Times),
             ved \in DomOf("varied_end_date", K, Dates),
             vet \in DomOf("varied_end_time", K, Times) :
               Construct("a", "g1", slot,
                         Kwargs(K, usd, ust, ued, uet, vsd, vst, ved, vet, hide))
    \/ cancel("a")
    \/ uncancel("a")
    \/ \E v \in Variations \cup {NoVariation} : _set_varied_event("a", v)

(* The life of one occurrence: construction with any keyword arguments,    *)
(* cancel(), uncancel() and assignments to varied_event.                   *)
Spec == Init /\ [][Next]_vars

(* The generators an object of the pair may belong to: "a" and "b" never   *)
(* share a generator, so their identity keys differ.                       *)
GeneratorsOf(o) == IF o = "a" THEN {"g1"} ELSE {"g2", "g3"}

NextPair ==
    \/ \E o \in Objs :
          /\ o \notin alive
          /\ \E g \in GeneratorsOf(o), K \in SUBSET {"unvaried_end_time"} :
             \E usd \in Dates, ust \in Times,
                uet \in DomOf("unvaried_end_time", K, Times) :
                  Construct(o, g, FALSE,
                            Kwargs(K, usd, ust, None, uet, None, None, None, None, FALSE))
    \/ \E o \in Objs : cancel(o)
    \/ \E o \in Objs : uncancel(o)
    \/ \E o \in Objs, k \in VKeys : \E x \in FieldValues(k) : SetField(o, k, x)

(* Two occurrences as a generator fabricates them (no varied_* argument),  *)
(* then moved by assignments and cancelled or uncancelled.                 *)
SpecPair == Init /\ [][NextPair]_vars

(* ------------------- what the claims call the end --------------------- *)

(* The end as the claims define it: (end date if present, otherwise start  *)
(* date) combined with (end time if present, otherwise start time).        *)
DefaultedEnd(end_date, end_time, start_date, start_time) ==
    <<(IF end_date # None THEN end_date ELSE start_date)[1]>>
        \o (IF end_time # None THEN end_time ELSE start_time)

ClaimedUnvariedStart(o) == <<o.unvaried_start_date[1]>> \o o.unvaried_start_time

ClaimedUnvariedEnd(o) ==
    DefaultedEnd(o.unvaried_end_date, o.unvaried_end_time,
                 o.unvaried_start_date, o.unvaried_start_time)

ClaimedVariedStart(o) == <<o.varied_start_date[1]>> \o o.varied_start_time

ClaimedVariedEnd(o) ==
    DefaultedEnd(o.varied_end_date, o.varied_end_time,
                 o.varied_start_date, o.varied_start_time)

(* -------------------------------- C1 ---------------------------------- *)

(* C1: an occurrence constructed with a valid unvaried start, any          *)
(* present/absent unvaried end date and end time and no varied_* argument  *)
(* has each varied field equal to its unvaried field, and is_moved         *)
(* evaluates to false.                                                     *)
C1_ConstructedUnvaried ==
    (lastOp = "__init__" /\ supplied = {}) =>
        LET o == occs[lastObj]
        IN  /\ o.varied_start_date = o.unvaried_start_date
            /\ o.varied_start_time = o.unvaried_start_time
            /\ o.varied_end_date = o.unvaried_end_date
            /\ o.varied_end_time = o.unvaried_end_time
            /\ _is_moved(o).raised = ""
            /\ _is_moved(o).value = FALSE

(* -------------------------------- C2 ---------------------------------- *)

(* C2: unvaried_end and varied_end are the end date (the start date when   *)
(* absent) combined with the end time (the start time when absent), and    *)
(* reading them never raises.                                              *)
C2_EndDefaults ==
    \A x \in alive :
        LET o == occs[x]
        IN  /\ _get_unvaried_end(o).raised = ""
            /\ _get_unvaried_end(o).value = ClaimedUnvariedEnd(o)
            /\ HasStart(o) =>
                  /\ _get_varied_end(o).raised = ""
                  /\ _get_varied_end(o).value = ClaimedVariedEnd(o)

(* -------------------------------- C3 ---------------------------------- *)

(* C3: a == b exactly when the generators belong to the same event and the *)
(* unvaried start and the unvaried end are identical, whatever the varied  *)
(* fields and the flags are.                                               *)
C3_Equality ==
    \A x \in alive : \A y \in alive \ {x} :
        LET a == occs[x]
            b == occs[y]
        IN  /\ __eq__(a, b).raised = ""
            /\ __eq__(a, b).value =
                  (/\ EventOf(a.generator) = EventOf(b.generator)
                   /\ ClaimedUnvariedStart(a) = ClaimedUnvariedStart(b)
                   /\ ClaimedUnvariedEnd(a) = ClaimedUnvariedEnd(b))

(* -------------------------------- C4 ---------------------------------- *)

(* The list of the day of x's varied start, and x's place in it.           *)
DayList(x) ==
    LET daystart == <<occs[x].varied_start_date[1], 0, 0, 0>>
    IN  get_occurrences(EventOf(occs[x].generator), daystart, plus_one_day(daystart))

PlaceIn(list, x) == CHOOSE i \in 1..Len(list) : list[i] = x

(* C4: generated_id of the occurrence at place N (0-based) of its day's    *)
(* list is N, also when the list holds occurrences of the same event from  *)
(* several generators.  Stated for lists whose occurrences all carry their *)
(* end times, where reading an end cannot raise.                           *)
C4_GeneratedId ==
    \A x \in alive :
        (/\ HasStart(occs[x])
         /\ \A y \in alive : /\ occs[y].unvaried_end_time # None
                             /\ occs[y].varied_end_time # None
                             /\ HasStart(occs[y])) =>
            /\ generated_id(x).raised = ""
            /\ generated_id(x).value = PlaceIn(DayList(x), x) - 1

(* -------------------------------- C5 ---------------------------------- *)

(* less / greater on two fields as the claim reads them: between two times *)
(* that are present.                                                       *)
ClaimedLess(x, y) == x # None /\ y # None /\ TimeKey(x) < TimeKey(y)

ClaimedClauses(o) ==
    (IF o.varied_start_date # o.unvaried_start_date THEN <<"new date">> ELSE <<>>)
    \o (IF ClaimedLess(o.varied_start_time, o.unvaried_start_time)
          THEN <<"starts earlier at " \o strftime_HM(o.varied_start_time)>>
        ELSE IF ClaimedLess(o.unvaried_start_time, o.varied_start_time)
          THEN <<"starts later at " \o strftime_HM(o.varied_start_time)>>
        ELSE <<>>)
    \o (IF ClaimedLess(o.varied_end_time, o.unvaried_end_time)
          THEN <<"ends earlier at " \o strftime_HM(o.varied_end_time)>>
        ELSE IF ClaimedLess(o.unvaried_end_time, o.varied_end_time)
          THEN <<"ends later at " \o strftime_HM(o.varied_end_time)>>
        ELSE <<>>)

(* C5: reason() returns the variation's reason when one is attached, else  *)
(* "Cancelled" when cancelled, else the applicable clauses joined by ", "  *)
(* in the order new date, start, end (the empty string when none applies). *)
(* Stated for occurrences that carry a varied start.                       *)
C5_Reason ==
    \A x \in alive :
        LET o == occs[x]
        IN  HasStart(o) =>
                /\ reason(o).raised = ""
                /\ reason(o).value =
                      (IF _get_varied_event(o) # NoVariation
                         THEN VariationReason(_get_varied_event(o))
                       ELSE IF o.cancelled THEN "Cancelled"
                       ELSE Join(ClaimedClauses(o)))

(* -------------------------------- C6 ---------------------------------- *)

(* C6: after cancel() (uncancel()) the flag is true (false), the saved row *)
(* equals the object, the call made exactly one save, a repeated call      *)
(* changes nothing further, and no other field of any object changed.      *)
C6_CancelUncancel ==
    [][ lastOp' \in {"cancel", "uncancel"} =>
          LET o == lastObj'
          IN  /\ occs'[o].cancelled = (lastOp' = "cancel")
              /\ o \in saved'
              /\ db'[o] = occs'[o]
              /\ saves' = 1
              /\ occs' = [occs EXCEPT ![o].cancelled = (lastOp' = "cancel")]
              /\ \A p \in Objs \ {o} : db'[p] = db[p]
              /\ (lastOp = lastOp' /\ lastObj = lastObj') => (occs' = occs /\ db' = db)
      ]_vars

(* An occurrence that was cancelled and then uncancelled: the row on disk  *)
(* and the object both say not cancelled.                                  *)
C6_Witness ==
    /\ lastOp = "uncancel"
    /\ "a" \in saved
    /\ ~occs["a"].cancelled
    /\ ~db["a"].cancelled
    /\ occs["a"].varied_start_time # occs["a"].unvaried_start_time
    /\ occs["a"]._varied_event # NoVariation

(* -------------------------------- C7 ---------------------------------- *)

(* C7: as_icalendar's dtstart is the canonical start and its dtend the     *)
(* canonical end (varied_end), also when the varied end date is absent;    *)
(* the summary is the merged event's title.  Stated for occurrences that   *)
(* carry a varied end time, where varied_end itself returns.               *)
C7_Icalendar ==
    \A x \in alive :
        LET o == occs[x]
        IN  (HasStart(o) /\ o.varied_end_time # None) =>
                /\ as_icalendar(o).raised = ""
                /\ as_icalendar(o).summary = MergedTitle(o)
                /\ as_icalendar(o).dtstart = _get_varied_start(o).value
                /\ as_icalendar(o).dtend = _get_varied_end(o).value

(* -------------------------------- C8 ---------------------------------- *)

(* C8: assigning varied_event to an occurrence without the slot raises     *)
(* AttributeError and changes nothing (varied_event still reads absent);   *)
(* with the slot the assignment succeeds and the value is read back.       *)
C8_SetVariedEvent ==
    [][ lastOp' = "_set_varied_event" =>
          LET o == lastObj'
          IN  IF occs[o].has_slot
                THEN /\ raised' = ""
                     /\ _get_varied_event(occs'[o]) = lastArg'
                     /\ occs' = [occs EXCEPT ![o]._varied_event = lastArg']
                     /\ db' = db
                ELSE /\ raised' = "AttributeError"
                     /\ _get_varied_event(occs'[o]) = NoVariation
                     /\ occs' = occs
                     /\ db' = db
      ]_vars

(* A refused assignment on a cancelled, saved occurrence without the slot. *)
C8_Witness ==
    /\ lastOp = "_set_varied_event"
    /\ raised = "AttributeError"
    /\ lastArg # NoVariation
    /\ ~occs["a"].has_slot
    /\ occs["a"].cancelled
    /\ "a" \in saved

(* -------------------------------- C9 ---------------------------------- *)

(* C9: is_varied equals (is_moved or cancelled), is_moved being true       *)
(* exactly when (unvaried_start, unvaried_end) differs from (varied_start, *)
(* varied_end) computed from the current fields; a cancelled occurrence    *)
(* always reports is_varied true.                                          *)
C9_IsVaried ==
    \A x \in alive :
        LET o == occs[x]
        IN  HasStart(o) =>
                /\ _is_varied(o).raised = ""
                /\ _is_varied(o).value =
                      (\/ ClaimedUnvariedStart(o) # ClaimedVariedStart(o)
                       \/ ClaimedUnvariedEnd(o) # ClaimedVariedEnd(o)
                       \/ o.cancelled)

(* -------------------------------- C10 --------------------------------- *)

(* C10: the comparison is decided by varied start, then by varied end, and *)
(* ties exactly when both are equal, whatever the unvaried fields and      *)
(* cancelled are.                                                          *)
C10_Ordering ==
    \A x \in alive : \A y \in alive \ {x} :
        LET a == occs[x]
            b == occs[y]
        IN  (HasStart(a) /\ HasStart(b)) =>
                /\ __cmp__(a, b).raised = ""
                /\ __cmp__(a, b).value =
                      (IF cmp(ClaimedVariedStart(a), ClaimedVariedStart(b)) # 0
                         THEN cmp(ClaimedVariedStart(a), ClaimedVariedStart(b))
                       ELSE cmp(ClaimedVariedEnd(a), ClaimedVariedEnd(b)))

====
